---- MODULE Spec2Model ----
(***************************************************************************)
(* Model of the meter-api mock engine (src/src/mocks/data.ts):             *)
(*   - getLocalYMDAndHM : UTC instant -> timezone-local fields and weekday *)
(*   - unitRateFor / carbonFor : ordered time-window matching              *)
(*   - range / generateReadings : synthetic readings at a fixed step       *)
(* One call is in flight per behaviour: Init draws the call and its        *)
(* arguments, the action of the called function computes its result.       *)
(*                                                                         *)
(* Encodings.  An instant is a whole number of minutes since               *)
(* 1970-01-01T00:00Z.  An ISO string "YYYY-MM-DDTHH:MM:00Z" is the record  *)
(* [day, hh, mm] with day the number of its calendar date counted from     *)
(* 1970-01-01.  An "HH:MM" string is the pair <<HH, MM>>.  Rates are in    *)
(* hundredths of a pound per kWh (0.28 is 28), intensities in g/kWh.       *)
(***************************************************************************)
EXTENDS Integers, Sequences, FiniteSets

VARIABLES
    host,      \* time zone of the process that runs the code (TZ of the runtime)
    fn,        \* the function called
    tsISO,     \* unitRateFor/carbonFor: the timestamp argument
    tz,        \* unitRateFor/carbonFor: the IANA zone argument
    ruleSet,   \* unitRateFor: tariff.windows; carbonFor: profile.rules
    meterId,   \* generateReadings: meter id argument
    utility,   \* generateReadings: utility argument
    fromISO,   \* generateReadings: start of the range
    toISO,     \* generateReadings: end of the range
    pc,        \* "call" before the function has run, "done" after
    local,     \* what getLocalYMDAndHM returned to the caller
    result,    \* what the function returned, or the exception it raised
    req,       \* GET /api/readings: the request and the catalogs; aggregation: the records
    resp,      \* GET /api/readings: the response; aggregation: the accumulators
    ui         \* ItemsFilter: the query state (search, page, pageSize) and what it is rendered with

vars == <<host, fn, tsISO, tz, ruleSet, meterId, utility, fromISO, toISO, pc, local, result, req, resp, ui>>

(***************************************************************************)
(* Bounds of the model                                                     *)
(***************************************************************************)
\* longest synthetic window list
MaxWindows == 2
\* generateReadings is called with to - from in -MaxSpan30 .. MaxSpan30 minutes
MaxSpan30 == 65
\* ... and with to - from within MaxSlack minutes of 1 and 2 whole days
MaxSlack == 1

(***************************************************************************)
(* Calendar arithmetic of Date                                             *)
(***************************************************************************)
MinutesPerDay == 24 * 60

\* floor division and modulo for possibly negative minutes
FloorDiv(a, b) == IF a >= 0 THEN a \div b ELSE -((-a + b - 1) \div b)

FloorMod(a, b) == a - b * FloorDiv(a, b)

\* new Date(iso) for an ISO string with a Z offset: the instant it denotes
DateParse(iso) == iso.day * MinutesPerDay + iso.hh * 60 + iso.mm

\* Date.prototype.toISOString: the UTC fields of an instant
toISOString(t) == [day |-> FloorDiv(t, MinutesPerDay), hh |-> FloorMod(t, MinutesPerDay) \div 60, mm |-> FloorMod(t, 60)]

\* weekday of a calendar date (0 = Sunday); 1970-01-01 was a Thursday
DayOfWeek(day) == FloorMod(day + 4, 7)

\* Date.prototype.getUTCHours / getUTCDay
getUTCHours(t) == FloorMod(t, MinutesPerDay) \div 60

getUTCDay(t) == DayOfWeek(FloorDiv(t, MinutesPerDay))

(***************************************************************************)
(* Time zones known to the runtime.  A zone is its standard offset, its    *)
(* summer offset and the instants between which the summer offset applies  *)
(* (European rule, 2025: from 30 March 01:00Z until 26 October 01:00Z).    *)
(***************************************************************************)
DstStart == 20177 * MinutesPerDay + 60

DstEnd == 20387 * MinutesPerDay + 60

ZoneTable == [name \in {"UTC", "Europe/London", "Atlantic/Cape_Verde", "America/Nuuk"} |-> CASE name = "UTC" -> [std |-> 0, dst |-> 0] [] name = "Europe/London" -> [std |-> 0, dst |-> 60] [] name = "Atlantic/Cape_Verde" -> [std |-> -60, dst |-> -60] [] name = "America/Nuuk" -> [std |-> -120, dst |-> -60]]

KnownZones == DOMAIN ZoneTable

\* offset from UTC, in minutes, that zone z observes at instant t
OffsetAt(z, t) == IF t >= DstStart /\ t < DstEnd THEN ZoneTable[z].dst ELSE ZoneTable[z].std

\* The instant a wall-clock time w (minutes, counted as if it were UTC) denotes
\* in zone z.  A time the zone skips or repeats is read with the offset in
\* force before the transition, as the language requires of the Date parser.
LocalToUTC(z, w) ==
    LET std == ZoneTable[z].std
        dst == ZoneTable[z].dst
        fits == {o \in {std, dst} : OffsetAt(z, w - o) = o}
    IN  IF fits = {} THEN w - std
        ELSE IF dst \in fits /\ std \in fits THEN w - dst
        ELSE w - (CHOOSE o \in fits : TRUE)

\* new Date("YYYY-MM-DDTHH:MM:00"): no offset in the string, so the runtime
\* reads it as a wall-clock time of the host's zone
DateParseLocal(hostZone, day, hh, mm) == LocalToUTC(hostZone, day * MinutesPerDay + hh * 60 + mm)

\* Date.prototype.getDay: weekday of the host-local date of an instant
getDay(hostZone, t) == DayOfWeek(FloorDiv(t + OffsetAt(hostZone, t), MinutesPerDay))

\* Intl.DateTimeFormat(..., {timeZone: zone}).formatToParts(d): the date and
\* the clock of instant t in the zone
formatToParts(zone, t) ==
    LET w == t + OffsetAt(zone, t)
    IN  [day |-> FloorDiv(w, MinutesPerDay), hour |-> FloorMod(w, MinutesPerDay) \div 60, minute |-> FloorMod(w, 60)]

NoLocal == [day |-> 0, HH |-> 0, MM |-> 0, weekday |-> 0, minutes |-> 0, threw |-> FALSE]

\* getLocalYMDAndHM(dUTC, tz), run on a host whose zone is hostZone
getLocalYMDAndHM(hostZone, dUTC, zone) ==
    IF zone \notin KnownZones THEN [NoLocal EXCEPT !.threw = TRUE]
    ELSE LET parts == formatToParts(zone, dUTC)
             localDate == DateParseLocal(hostZone, parts.day, parts.hour, parts.minute)
         IN  [day |-> parts.day, HH |-> parts.hour, MM |-> parts.minute, weekday |-> getDay(hostZone, localDate), minutes |-> 0, threw |-> FALSE]

(***************************************************************************)
(* Window matching                                                         *)
(***************************************************************************)
hhmmToMinutes(hhmm) == hhmm[1] * 60 + hhmm[2]

\* dayMatches with Sunday counted as a weekday
dayMatches_SundayWeekday(ruleDays, weekday) ==
    IF ruleDays = "undefined" \/ ruleDays = "all" THEN TRUE
    ELSE LET isWeekend == weekday = 6
         IN  IF ruleDays = "weekends" THEN isWeekend ELSE ~isWeekend

dayMatches(ruleDays, weekday) ==
    IF ruleDays = "undefined" \/ ruleDays = "all" THEN TRUE
    ELSE LET isWeekend == weekday = 0 \/ weekday = 6
         IN  IF ruleDays = "weekends" THEN isWeekend ELSE ~isWeekend

Pending == [status |-> "pending", value |-> 0, index |-> 0, error |-> "", readings |-> <<>>]

\* a number returned; index is the position of the window the loop returned
\* from, 0 when the statement after the loop returned
Returned(v, i) == [Pending EXCEPT !.status = "returned", !.value = v, !.index = i]

Threw(e) == [Pending EXCEPT !.status = "threw", !.error = e]

\* the inWindow expression with the end minute included
unitRateInWindow_ClosedEnd(from, to, minutes) == IF from <= to THEN minutes >= from /\ minutes <= to ELSE minutes >= from \/ minutes < to

\* the inWindow expression with the wrapping case tested like the plain one
unitRateInWindow_NoWrap(from, to, minutes) == IF from <= to THEN minutes >= from /\ minutes < to ELSE minutes >= from /\ minutes < to

\* the inWindow expression with equal bounds taken as a window that wraps
unitRateInWindow_EqualWraps(from, to, minutes) == IF from < to THEN minutes >= from /\ minutes < to ELSE minutes >= from \/ minutes < to

\* unitRateFor: the inWindow expression
unitRateInWindow(from, to, minutes) == IF from <= to THEN minutes >= from /\ minutes < to ELSE minutes >= from \/ minutes < to

\* the statement after the loop returning the first window's rate
unitRateFallback_First(windows) == IF Len(windows) = 0 THEN Threw("TypeError") ELSE Returned(windows[1].unitRateGBPPerKWh, 0)

\* unitRateFor: the statement after the loop
unitRateFallback(windows) == IF Len(windows) = 0 THEN Threw("TypeError") ELSE Returned(windows[Len(windows)].unitRateGBPPerKWh, 0)

\* the loop with the last matching window winning
RECURSIVE unitRateLoop_LastMatch(_, _, _, _)
unitRateLoop_LastMatch(windows, i, minutes, weekday) ==
    IF i > Len(windows) THEN unitRateFallback(windows)
    ELSE LET w == windows[i]
             from == hhmmToMinutes(w.fromHHmm)
             to == hhmmToMinutes(w.toHHmm)
             rest == unitRateLoop_LastMatch(windows, i + 1, minutes, weekday)
         IN  IF rest.status = "returned" /\ rest.index # 0 THEN rest
             ELSE IF dayMatches(w.days, weekday) /\ unitRateInWindow(from, to, minutes) THEN Returned(w.unitRateGBPPerKWh, i)
             ELSE rest

\* unitRateFor: the loop over tariff.windows, from window i on
RECURSIVE unitRateLoop(_, _, _, _)
unitRateLoop(windows, i, minutes, weekday) ==
    IF i > Len(windows) THEN unitRateFallback(windows)
    ELSE LET w == windows[i]
             from == hhmmToMinutes(w.fromHHmm)
             to == hhmmToMinutes(w.toHHmm)
         IN  IF ~dayMatches(w.days, weekday) THEN unitRateLoop(windows, i + 1, minutes, weekday)
             ELSE IF unitRateInWindow(from, to, minutes) THEN Returned(w.unitRateGBPPerKWh, i)
             ELSE unitRateLoop(windows, i + 1, minutes, weekday)

\* the carbon inWindow expression with the end minute included
carbonInWindow_ClosedEnd(from, to, minutes) == IF from <= to THEN minutes >= from /\ minutes <= to ELSE minutes >= from \/ minutes < to

\* carbonFor: the inWindow expression
carbonInWindow(from, to, minutes) == IF from <= to THEN minutes >= from /\ minutes < to ELSE minutes >= from \/ minutes < to

\* carbonFor: the statement after the loop
carbonFallback(rules) == IF Len(rules) = 0 THEN Threw("TypeError") ELSE Returned(rules[Len(rules)].gCO2PerKWh, 0)

\* carbonFor: the loop over profile.rules, from rule i on
RECURSIVE carbonLoop(_, _, _, _)
carbonLoop(rules, i, minutes, weekday) ==
    IF i > Len(rules) THEN carbonFallback(rules)
    ELSE LET r == rules[i]
             from == hhmmToMinutes(r.fromHHmm)
             to == hhmmToMinutes(r.toHHmm)
         IN  IF ~dayMatches(r.days, weekday) THEN carbonLoop(rules, i + 1, minutes, weekday)
             ELSE IF carbonInWindow(from, to, minutes) THEN Returned(r.gCO2PerKWh, i)
             ELSE carbonLoop(rules, i + 1, minutes, weekday)

(***************************************************************************)
(* Fixture rule sets                                                       *)
(***************************************************************************)
TariffWindow(f, t, d, rate) == [fromHHmm |-> f, toHHmm |-> t, days |-> d, unitRateGBPPerKWh |-> rate]

CarbonCurveRule(f, t, d, g) == [fromHHmm |-> f, toHHmm |-> t, days |-> d, gCO2PerKWh |-> g]

\* tou_elec_v1 with the day filter of "Peak (WD)" left out
tou_elec_v1_PeakEveryDay == << TariffWindow(<<7, 0>>, <<19, 0>>, "all", 28), TariffWindow(<<19, 0>>, <<22, 0>>, "all", 24), TariffWindow(<<22, 0>>, <<7, 0>>, "all", 18), TariffWindow(<<7, 0>>, <<19, 0>>, "weekends", 22) >>

tou_elec_v1 == << TariffWindow(<<7, 0>>, <<19, 0>>, "weekdays", 28), TariffWindow(<<19, 0>>, <<22, 0>>, "all", 24), TariffWindow(<<22, 0>>, <<7, 0>>, "all", 18), TariffWindow(<<7, 0>>, <<19, 0>>, "weekends", 22) >>

flat_gas_v1 == << TariffWindow(<<0, 0>>, <<24, 0>>, "all", 7) >>

\* the profile with the weekend day rule ending an hour early
uk_grid_profile_v1_WeekendGap == << CarbonCurveRule(<<0, 0>>, <<6, 0>>, "all", 180), CarbonCurveRule(<<6, 0>>, <<9, 0>>, "weekdays", 320), CarbonCurveRule(<<9, 0>>, <<16, 0>>, "weekdays", 280), CarbonCurveRule(<<16, 0>>, <<19, 0>>, "weekdays", 350), CarbonCurveRule(<<19, 0>>, <<23, 0>>, "weekdays", 240), CarbonCurveRule(<<6, 0>>, <<22, 0>>, "weekends", 220), CarbonCurveRule(<<23, 0>>, <<24, 0>>, "all", 190) >>

uk_grid_profile_v1 == << CarbonCurveRule(<<0, 0>>, <<6, 0>>, "all", 180), CarbonCurveRule(<<6, 0>>, <<9, 0>>, "weekdays", 320), CarbonCurveRule(<<9, 0>>, <<16, 0>>, "weekdays", 280), CarbonCurveRule(<<16, 0>>, <<19, 0>>, "weekdays", 350), CarbonCurveRule(<<19, 0>>, <<23, 0>>, "weekdays", 240), CarbonCurveRule(<<6, 0>>, <<23, 0>>, "weekends", 220), CarbonCurveRule(<<23, 0>>, <<24, 0>>, "all", 190) >>

tariffs == {tou_elec_v1, flat_gas_v1}

carbonProfiles == {uk_grid_profile_v1}

(***************************************************************************)
(* Synthetic readings                                                      *)
(***************************************************************************)
\* range with the end of the range left out
RECURSIVE range_ExclusiveEnd(_, _, _)
range_ExclusiveEnd(t, endUTC, stepMinutes) == IF t < endUTC THEN <<t>> \o range_ExclusiveEnd(t + stepMinutes, endUTC, stepMinutes) ELSE <<>>

\* range with the first point one step after the start
RECURSIVE range_SkipsStart(_, _, _)
range_SkipsStart(t, endUTC, stepMinutes) == IF t + stepMinutes <= endUTC THEN <<t + stepMinutes>> \o range_SkipsStart(t + stepMinutes, endUTC, stepMinutes) ELSE <<>>

\* range(startUTC, endUTC, stepMinutes): the loop, from instant t on
RECURSIVE range(_, _, _)
range(t, endUTC, stepMinutes) == IF t <= endUTC THEN <<t>> \o range(t + stepMinutes, endUTC, stepMinutes) ELSE <<>>

\* step of generateReadings, in minutes
stepFor(util) == IF util = "electricity" THEN 30 ELSE 1440

\* value of the i-th point (i counted from 0), in tenths of a kWh: base load,
\* the argument of the sine term (-1: no sine term) and the bump that is added
readingValue(util, d, i) ==
    IF util = "electricity" THEN [base |-> 22, wave |-> i, bump |-> IF getUTCHours(d) >= 7 /\ getUTCHours(d) < 19 THEN 8 ELSE 0]
    ELSE [base |-> 1000, wave |-> -1, bump |-> IF getUTCDay(d) = 1 THEN 150 ELSE 0]

generateReadings(id, util, fromStr, toStr) ==
    LET from == DateParse(fromStr)
        to == DateParse(toStr)
        points == range(from, to, stepFor(util))
    IN  [k \in 1..Len(points) |-> [meterId |-> id, ts |-> toISOString(points[k]), value |-> readingValue(util, points[k], k - 1), unit |-> "kWh"]]

(***************************************************************************)
(* Calls the model makes                                                   *)
(***************************************************************************)
ISO(day, hh, mm) == [day |-> day, hh |-> hh, mm |-> mm]

NoISO == ISO(0, 0, 0)

\* Monday 24 March 2025 .. Sunday 30 March 2025
Week == 20171..20177

\* 2025-09-16T12:00:00Z and 2025-09-20T23:30:00Z
ScenarioA == ISO(20347, 12, 0)

ScenarioB == ISO(20351, 23, 30)

\* every hour of the week: on the hour, a minute after it and a minute before it
FixtureInstants == {ISO(d, h, m) : d \in Week, h \in 0..23, m \in {0, 1, 59}} \cup {ScenarioA, ScenarioB}

ProbeClock == {<<0, 0>>, <<6, 59>>, <<7, 0>>, <<11, 40>>, <<21, 59>>, <<22, 0>>, <<23, 59>>}

SyntheticInstants == {ISO(d, p[1], p[2]) : d \in Week, p \in ProbeClock}

TzArgs == {"UTC", "Europe/London", "Atlantic/Cape_Verde", "Mars/Olympus"}

Hosts == {"UTC", "America/Nuuk"}

\* synthetic windows: a plain window, a window that wraps past midnight and an
\* empty one, under every day filter; the i-th window of a list carries value 10*i
Shapes == {<<<<7, 0>>, <<22, 0>>>>, <<<<22, 0>>, <<7, 0>>>>, <<<<7, 0>>, <<7, 0>>>>} \X {"undefined", "all", "weekdays", "weekends"}

ShapeLists == UNION {[1..n -> Shapes] : n \in 0..MaxWindows}

SyntheticTariff(l) == [i \in 1..Len(l) |-> TariffWindow(l[i][1][1], l[i][1][2], l[i][2], 10 * i)]

SyntheticProfile(l) == [i \in 1..Len(l) |-> CarbonCurveRule(l[i][1][1], l[i][1][2], l[i][2], 10 * i)]

Spans == (-MaxSpan30..MaxSpan30) \cup {k * MinutesPerDay + e : k \in 1..2, e \in -MaxSlack..MaxSlack}

RangeStarts == {ISO(20089, 0, 0), ISO(20171, 6, 45), ISO(20176, 23, 30)}

InitRate ==
    /\ fn \in {"unitRateFor", "carbonFor"}
    /\ \/ /\ ruleSet \in (IF fn = "unitRateFor" THEN tariffs ELSE carbonProfiles)
          /\ tsISO \in FixtureInstants
          /\ tz \in TzArgs
          /\ host \in Hosts
       \/ /\ \E l \in ShapeLists : ruleSet = (IF fn = "unitRateFor" THEN SyntheticTariff(l) ELSE SyntheticProfile(l))
          /\ tsISO \in SyntheticInstants
          /\ tz \in {"UTC", "Atlantic/Cape_Verde"}
          /\ host = "UTC"
    /\ meterId = ""
    /\ utility = ""
    /\ fromISO = NoISO
    /\ toISO = NoISO

InitReadings ==
    /\ fn = "generateReadings"
    /\ host \in Hosts
    /\ meterId \in {"m_e_001", "m_g_001"}
    /\ utility \in {"electricity", "gas"}
    /\ fromISO \in RangeStarts
    /\ \E span \in Spans : toISO = toISOString(DateParse(fromISO) + span)
    /\ tsISO = NoISO
    /\ tz = ""
    /\ ruleSet = <<>>

\* the variables of the route handler, of the aggregation and of the component
\* while none of them runs
NoReq == [kind |-> "none"]

NoResp == [kind |-> "none"]

NoUi == [kind |-> "none"]

Init ==
    /\ InitRate \/ InitReadings
    /\ pc = "call"
    /\ local = NoLocal
    /\ result = Pending
    /\ req = NoReq
    /\ resp = NoResp
    /\ ui = NoUi

\* unitRateFor(tsISO, tz, tariff)
UnitRateFor ==
    /\ pc = "call"
    /\ fn = "unitRateFor"
    /\ LET d == DateParse(tsISO)
           l == getLocalYMDAndHM(host, d, tz)
           minutes == l.HH * 60 + l.MM
       IN  /\ local' = [l EXCEPT !.minutes = minutes]
           /\ result' = IF l.threw THEN Threw("RangeError") ELSE unitRateLoop(ruleSet, 1, minutes, l.weekday)
    /\ pc' = "done"
    /\ UNCHANGED <<host, fn, tsISO, tz, ruleSet, meterId, utility, fromISO, toISO, req, resp, ui>>

\* carbonFor(tsISO, tz, profile)
CarbonFor ==
    /\ pc = "call"
    /\ fn = "carbonFor"
    /\ LET d == DateParse(tsISO)
           l == getLocalYMDAndHM(host, d, tz)
           minutes == l.HH * 60 + l.MM
       IN  /\ local' = [l EXCEPT !.minutes = minutes]
           /\ result' = IF l.threw THEN Threw("RangeError") ELSE carbonLoop(ruleSet, 1, minutes, l.weekday)
    /\ pc' = "done"
    /\ UNCHANGED <<host, fn, tsISO, tz, ruleSet, meterId, utility, fromISO, toISO, req, resp, ui>>

\* generateReadings(meterId, utility, fromISO, toISO)
GenerateReadings ==
    /\ pc = "call"
    /\ fn = "generateReadings"
    /\ result' = [Pending EXCEPT !.status = "returned", !.readings = generateReadings(meterId, utility, fromISO, toISO)]
    /\ pc' = "done"
    /\ UNCHANGED <<host, fn, tsISO, tz, ruleSet, meterId, utility, fromISO, toISO, local, req, resp, ui>>

Next == UnitRateFor \/ CarbonFor \/ GenerateReadings

Spec == Init /\ [][Next]_vars

(***************************************************************************)
(* GET /api/readings (src/src/mocks/model.ts).  A number is a record: a    *)
(* finite integer, NaN or Infinity.  A string is a sequence of characters. *)
(* A query parameter is absent, or holds the empty string, text that is no *)
(* number, or the digits of an integer.                                    *)
(***************************************************************************)
\* longest list of readings the handler is run on
MaxReadings == 3
\* page and pageSize parameters are drawn from -1 .. MaxParam
MaxParam == 3

Num(n) == [kind |-> "finite", n |-> n]

NaN == [kind |-> "NaN", n |-> 0]

Infinity == [kind |-> "Infinity", n |-> 0]

Absent == [kind |-> "absent", n |-> 0]

EmptyText == [kind |-> "empty", n |-> 0]

Letters == [kind |-> "letters", n |-> 0]

Digits(n) == [kind |-> "digits", n |-> n]

\* parseInt(searchParams.get(name) || fallback), fallback being digits
parseIntParam(param, fallback) ==
    IF param.kind \in {"absent", "empty"} THEN Num(fallback)
    ELSE IF param.kind = "digits" THEN Num(param.n)
    ELSE NaN

\* String.prototype.toLowerCase, character by character
LowerOf(c) == CASE c = "A" -> "a" [] c = "B" -> "b" [] OTHER -> c

toLowerCase(str) == [k \in 1..Len(str) |-> LowerOf(str[k])]

\* String.prototype.includes
includes(str, part) == \E k \in 0..(Len(str) - Len(part)) : \A j \in 1..Len(part) : str[k + j] = part[j]

\* Array.prototype.slice(start, end)
slice(arr, start, end) ==
    LET len == Len(arr)
        k == IF start < 0 THEN (IF len + start > 0 THEN len + start ELSE 0) ELSE (IF start < len THEN start ELSE len)
        final == IF end < 0 THEN (IF len + end > 0 THEN len + end ELSE 0) ELSE (IF end < len THEN end ELSE len)
    IN  IF final > k THEN [j \in 1..(final - k) |-> arr[k + j]] ELSE <<>>

\* Math.ceil(totalItems / pageSize) for an array length and a finite integer
ceilDiv(totalItems, pageSize) ==
    IF pageSize = 0 THEN (IF totalItems = 0 THEN NaN ELSE Infinity)
    ELSE IF pageSize > 0 THEN Num((totalItems + pageSize - 1) \div pageSize)
    ELSE Num(-(totalItems \div (-pageSize)))

\* starterMeters.find(m => m.id === reading.meterId)
findMeter(meters, id) == IF \E k \in 1..Len(meters) : meters[k].id = id THEN meters[CHOOSE k \in 1..Len(meters) : meters[k].id = id /\ \A j \in 1..(k - 1) : meters[j].id # id] ELSE [id |-> "undefined"]

\* starterSites.find(s => s.id === meter.siteId)
findSite(sites, id) == IF \E k \in 1..Len(sites) : sites[k].id = id THEN sites[CHOOSE k \in 1..Len(sites) : sites[k].id = id /\ \A j \in 1..(k - 1) : sites[j].id # id] ELSE [id |-> "undefined"]

Null == [id |-> "null"]

\* the enriched reading of one reading
enrich(reading, meters, sites) ==
    LET meter == findMeter(meters, reading.meterId)
        site == IF meter.id # "undefined" THEN findSite(sites, meter.siteId) ELSE Null
    IN  [meterId |-> reading.meterId, ts |-> reading.ts, value |-> reading.value, unit |-> reading.unit,
         meter |-> IF meter.id # "undefined" THEN [id |-> meter.id, utility |-> meter.utility, status |-> meter.status] ELSE Null,
         site |-> IF site.id \notin {"undefined", "null"} THEN [id |-> site.id, name |-> site.name] ELSE Null]

\* reading.site?.name.toLowerCase().includes(search)
siteNameIncludes(enriched, search) == IF enriched.site = Null THEN FALSE ELSE includes(toLowerCase(enriched.site.name), search)

\* filteredReadings
RECURSIVE filterBySite(_, _)
filterBySite(enrichedReadings, search) ==
    IF enrichedReadings = <<>> THEN <<>>
    ELSE (IF siteNameIncludes(Head(enrichedReadings), search) THEN <<Head(enrichedReadings)>> ELSE <<>>) \o filterBySite(Tail(enrichedReadings), search)

ErrorResponse(message) == [status |-> 500, success |-> FALSE, data |-> <<>>, error |-> message]

\* the pagination block with the first page starting one page in
paginate_StartAtPage(filteredReadings, page, pageSize, zodFinite) ==
    IF page.kind = "NaN" \/ pageSize.kind = "NaN" THEN ErrorResponse("Expected number, received nan")
    ELSE LET totalItems == Len(filteredReadings)
             totalPages == ceilDiv(totalItems, pageSize.n)
             startIndex == page.n * pageSize.n
             paginatedReadings == slice(filteredReadings, startIndex, startIndex + pageSize.n)
         IN  IF totalPages.kind = "NaN" THEN ErrorResponse("Expected number, received nan")
             ELSE IF totalPages.kind = "Infinity" /\ zodFinite THEN ErrorResponse("Expected number, received Infinity")
             ELSE [status |-> 200, success |-> TRUE, data |-> paginatedReadings,
                   pagination |-> [page |-> page, pageSize |-> pageSize, totalItems |-> Num(totalItems), totalPages |-> totalPages]]

\* the pagination block of the handler, and the response it builds
paginate(filteredReadings, page, pageSize, zodFinite) ==
    IF page.kind = "NaN" \/ pageSize.kind = "NaN" THEN ErrorResponse("Expected number, received nan")
    ELSE LET totalItems == Len(filteredReadings)
             totalPages == ceilDiv(totalItems, pageSize.n)
             startIndex == (page.n - 1) * pageSize.n
             paginatedReadings == slice(filteredReadings, startIndex, startIndex + pageSize.n)
         IN  IF totalPages.kind = "NaN" THEN ErrorResponse("Expected number, received nan")
             ELSE IF totalPages.kind = "Infinity" /\ zodFinite THEN ErrorResponse("Expected number, received Infinity")
             ELSE [status |-> 200, success |-> TRUE, data |-> paginatedReadings,
                   pagination |-> [page |-> page, pageSize |-> pageSize, totalItems |-> Num(totalItems), totalPages |-> totalPages]]

\* GET(request), over the catalogs the module imports
GET(request) ==
    LET searchTerm == request.search
        search == IF searchTerm = Null THEN <<>> ELSE toLowerCase(searchTerm.text)
        page == parseIntParam(request.page, 1)
        pageSize == parseIntParam(request.pageSize, 10000)
        enrichedReadings == [k \in 1..Len(request.starterReadings) |-> enrich(request.starterReadings[k], request.starterMeters, request.starterSites)]
        filteredReadings == IF searchTerm = Null \/ searchTerm.text = <<>> THEN enrichedReadings ELSE filterBySite(enrichedReadings, search)
    IN  paginate(filteredReadings, page, pageSize, request.zodFinite)

\* catalogs: m_3's site and m_x itself are missing
CatalogMeters == << [id |-> "m_1", siteId |-> "s_1", utility |-> "electricity", status |-> "online"], [id |-> "m_2", siteId |-> "s_2", utility |-> "gas", status |-> "offline"], [id |-> "m_3", siteId |-> "s_9", utility |-> "electricity", status |-> "online"] >>

CatalogSites == << [id |-> "s_1", name |-> <<"A", "b">>], [id |-> "s_2", name |-> <<"B", "a">>] >>

MeterIds == {"m_1", "m_2", "m_3", "m_x"}

ReadingLists == UNION {{[k \in 1..n |-> [meterId |-> ids[k], ts |-> k, value |-> 10 * k, unit |-> "kWh"]] : ids \in [1..n -> MeterIds]} : n \in 0..MaxReadings}

SearchTerms == {Null, [id |-> "text", text |-> <<>>], [id |-> "text", text |-> <<"a">>], [id |-> "text", text |-> <<"B">>], [id |-> "text", text |-> <<"a", "b">>], [id |-> "text", text |-> <<"x">>]}

PageParams == {Absent, EmptyText, Letters} \cup {Digits(n) : n \in -1..MaxParam}

InitApi ==
    /\ fn = "GET"
    /\ \E rs \in ReadingLists, st \in SearchTerms, pg \in PageParams, ps \in PageParams \ {EmptyText}, zf \in BOOLEAN :
           req = [kind |-> "GET", search |-> st, page |-> pg, pageSize |-> ps, starterReadings |-> rs, starterMeters |-> CatalogMeters, starterSites |-> CatalogSites, zodFinite |-> zf]
    /\ resp = NoResp
    /\ ui = NoUi
    /\ pc = "call"
    /\ host = "UTC"
    /\ tsISO = NoISO
    /\ tz = ""
    /\ ruleSet = <<>>
    /\ meterId = ""
    /\ utility = ""
    /\ fromISO = NoISO
    /\ toISO = NoISO
    /\ local = NoLocal
    /\ result = Pending

\* the route handler runs
Get ==
    /\ pc = "call"
    /\ fn = "GET"
    /\ resp' = GET(req)
    /\ pc' = "done"
    /\ UNCHANGED <<host, fn, tsISO, tz, ruleSet, meterId, utility, fromISO, toISO, local, result, req, ui>>

NextApi == Get

SpecApi == InitApi /\ [][NextApi]_vars

(***************************************************************************)
(* Aggregator (spec 4.6 and 5).  The source declares only its parameters   *)
(* (baseTimeSeriesQuery: interval, aggregate, groupBy); the reduction is   *)
(* written from the specification: one accumulator (count, sum, min, max)  *)
(* per group, built by one pass over the group's records, and a merge of   *)
(* two partial accumulators.  Metric values are whole numbers.             *)
(***************************************************************************)
MaxRecords == 3

MetricValues == (0 - 1)..3

\* min and max of a group without records
NoValue == "none"

EmptyAcc == [count |-> 0, sum |-> 0, min |-> NoValue, max |-> NoValue]

\* one more record of the group
Accumulate(acc, v) ==
    [count |-> acc.count + 1,
     sum |-> acc.sum + v,
     min |-> IF acc.count = 0 \/ v < acc.min THEN v ELSE acc.min,
     max |-> IF acc.count = 0 \/ v > acc.max THEN v ELSE acc.max]

RECURSIVE Reduce(_, _)
\* the single reduction pass over the records of a group
Reduce(acc, records) ==
    IF records = <<>> THEN acc ELSE Reduce(Accumulate(acc, Head(records)), Tail(records))

\* a merge that keeps the extremes of the left partial only
Merge_LeftExtremes(a, b) ==
    [count |-> a.count + b.count,
     sum |-> a.sum + b.sum,
     min |-> IF a.count = 0 THEN b.min ELSE a.min,
     max |-> IF a.count = 0 THEN b.max ELSE a.max]

\* merge of two partial accumulators of the same group
Merge(a, b) ==
    [count |-> a.count + b.count,
     sum |-> a.sum + b.sum,
     min |-> IF a.count = 0 THEN b.min
             ELSE IF b.count = 0 THEN a.min
             ELSE IF b.min < a.min THEN b.min ELSE a.min,
     max |-> IF a.count = 0 THEN b.max
             ELSE IF b.count = 0 THEN a.max
             ELSE IF b.max > a.max THEN b.max ELSE a.max]

Abs(n) == IF n < 0 THEN 0 - n ELSE n

RECURSIVE Gcd(_, _)
Gcd(a, b) == IF b = 0 THEN a ELSE Gcd(b, a % b)

\* avg of a group from its (sum, count) pair, as a fraction in lowest terms
Avg(acc) ==
    IF acc.count = 0 THEN NoValue
    ELSE LET g == Gcd(acc.count, Abs(acc.sum))
         IN  [num |-> acc.sum \div g, den |-> acc.count \div g]

\* the AggregateBucket of a group for the requested aggregate function
Bucket(acc, aggregateFn) ==
    [aggregate |-> CASE aggregateFn = "sum" -> acc.sum
                     [] aggregateFn = "avg" -> Avg(acc)
                     [] aggregateFn = "min" -> acc.min
                     [] aggregateFn = "max" -> acc.max,
     sampleCount |-> acc.count]

RECURSIVE Pick(_, _, _)
\* the records of a partition: those whose position is in idx, in order
Pick(records, idx, i) ==
    IF i > Len(records) THEN <<>>
    ELSE (IF i \in idx THEN <<records[i]>> ELSE <<>>) \o Pick(records, idx, i + 1)

RecordSets == UNION {[1..n -> MetricValues] : n \in 0..MaxRecords}

AggregateFns == {"sum", "avg", "min", "max"}

InitAgg ==
    /\ fn = "aggregate"
    /\ \E records \in RecordSets, aggregateFn \in AggregateFns :
         \E left \in SUBSET (1..Len(records)) :
           req = [kind |-> "aggregate", records |-> records, aggregateFn |-> aggregateFn, left |-> left]
    /\ pc = "call"
    /\ host = "UTC"
    /\ tsISO = NoISO
    /\ tz = ""
    /\ ruleSet = <<>>
    /\ meterId = ""
    /\ utility = ""
    /\ fromISO = NoISO
    /\ toISO = NoISO
    /\ local = NoLocal
    /\ result = Pending
    /\ resp = NoResp
    /\ ui = NoUi

\* two workers reduce their partitions, one reduces the whole group
AggregatePartials ==
    /\ pc = "call"
    /\ fn = "aggregate"
    /\ local' = [left |-> Reduce(EmptyAcc, Pick(req.records, req.left, 1)),
                 right |-> Reduce(EmptyAcc, Pick(req.records, (1..Len(req.records)) \ req.left, 1))]
    /\ resp' = [kind |-> "whole", acc |-> Reduce(EmptyAcc, req.records)]
    /\ pc' = "merge"
    /\ UNCHANGED <<host, fn, tsISO, tz, ruleSet, meterId, utility, fromISO, toISO, result, req, ui>>

\* fan-in: the partial accumulators are merged and the bucket is produced
MergePartials ==
    /\ pc = "merge"
    /\ fn = "aggregate"
    /\ result' = [status |-> "returned", acc |-> Merge(local.left, local.right),
                  bucket |-> Bucket(Merge(local.left, local.right), req.aggregateFn)]
    /\ pc' = "done"
    /\ UNCHANGED <<host, fn, tsISO, tz, ruleSet, meterId, utility, fromISO, toISO, local, req, resp, ui>>

NextAgg == AggregatePartials \/ MergePartials

SpecAgg == InitAgg /\ [][NextAgg]_vars

(***************************************************************************)
(* A tariff and a carbon profile with the same windows, resolved for the   *)
(* same instant: unitRateFor first, then carbonFor.                        *)
(***************************************************************************)
InitPair ==
    /\ fn = "pair"
    /\ \E l \in ShapeLists :
         /\ ruleSet = SyntheticTariff(l)
         /\ req = [kind |-> "pair", profile |-> SyntheticProfile(l)]
    /\ tsISO \in SyntheticInstants
    /\ tz \in {"UTC", "Atlantic/Cape_Verde", "Mars/Olympus"}
    /\ host = "UTC"
    /\ pc = "call"
    /\ meterId = ""
    /\ utility = ""
    /\ fromISO = NoISO
    /\ toISO = NoISO
    /\ local = NoLocal
    /\ result = Pending
    /\ resp = NoResp
    /\ ui = NoUi

\* unitRateFor(tsISO, tz, tariff) of the pair
PairUnitRateFor ==
    /\ pc = "call"
    /\ fn = "pair"
    /\ LET d == DateParse(tsISO)
           l == getLocalYMDAndHM(host, d, tz)
           minutes == l.HH * 60 + l.MM
       IN  /\ local' = [l EXCEPT !.minutes = minutes]
           /\ result' = IF l.threw THEN Threw("RangeError") ELSE unitRateLoop(ruleSet, 1, minutes, l.weekday)
    /\ pc' = "carbon"
    /\ UNCHANGED <<host, fn, tsISO, tz, ruleSet, meterId, utility, fromISO, toISO, req, resp, ui>>

\* carbonFor(tsISO, tz, profile) of the pair
PairCarbonFor ==
    /\ pc = "carbon"
    /\ fn = "pair"
    /\ LET d == DateParse(tsISO)
           l == getLocalYMDAndHM(host, d, tz)
           minutes == l.HH * 60 + l.MM
       IN  resp' = IF l.threw THEN Threw("RangeError") ELSE carbonLoop(req.profile, 1, minutes, l.weekday)
    /\ pc' = "done"
    /\ UNCHANGED <<host, fn, tsISO, tz, ruleSet, meterId, utility, fromISO, toISO, local, result, req, ui>>

NextPair == PairUnitRateFor \/ PairCarbonFor

SpecPair == InitPair /\ [][NextPair]_vars

(***************************************************************************)
(* The fixture rule sets at every minute of a week, in the order of the    *)
(* source and in the opposite order.                                       *)
(***************************************************************************)
Reverse(s) == [i \in 1..Len(s) |-> s[Len(s) + 1 - i]]

EveryMinute == {ISO(d, h, m) : d \in Week, h \in 0..23, m \in 0..59}

InitFixture ==
    /\ fn \in {"unitRateFor", "carbonFor"}
    /\ \E f \in (IF fn = "unitRateFor" THEN tariffs ELSE carbonProfiles) :
         /\ ruleSet \in {f, Reverse(f)}
         /\ req = [kind |-> "fixture", windows |-> f]
    /\ tsISO \in EveryMinute
    /\ tz \in {"UTC", "Europe/London"}
    /\ host = "UTC"
    /\ pc = "call"
    /\ meterId = ""
    /\ utility = ""
    /\ fromISO = NoISO
    /\ toISO = NoISO
    /\ local = NoLocal
    /\ result = Pending
    /\ resp = NoResp
    /\ ui = NoUi

NextFixture == UnitRateFor \/ CarbonFor

SpecFixture == InitFixture /\ [][NextFixture]_vars

(***************************************************************************)
(* ItemsFilter (src/src/components/items-filter.tsx).  search, page and    *)
(* pageSize are the query state; totalPages is a prop, supplied on every   *)
(* render as the page count of the items matching the search at the        *)
(* current page size.                                                      *)
(***************************************************************************)
MaxItems == 95

MaxPage == 16

pageSizeOptions == {10, 20, 50, 100}

FilterTerms == {"", "a", "ab", "b"}

\* the number of items whose site name holds the search term
ItemsMatching(search) ==
    CASE search = "" -> MaxItems
      [] search = "a" -> 25
      [] search = "b" -> 12
      [] OTHER -> 1

\* the totalPages prop of the render of query state q
totalPagesProp(q) == ceilDiv(ItemsMatching(q.search), q.pageSize).n

\* Number(page) || 1
currentPageOf(page) == IF page = 0 THEN 1 ELSE page

\* the page numbers rendered as links
pageLinks(page, totalPages) ==
    LET currentPage == currentPageOf(page)
        showEllipsis == totalPages > 7
    IN  IF ~showEllipsis THEN 1..totalPages
        ELSE IF currentPage <= 4 THEN (1..5) \cup (IF totalPages > 5 THEN {totalPages} ELSE {})
        ELSE IF currentPage >= totalPages - 3 THEN {1} \cup ((totalPages - 4)..totalPages)
        ELSE {1} \cup ((currentPage - 1)..(currentPage + 1)) \cup {totalPages}

Max(a, b) == IF a > b THEN a ELSE b

InitUI ==
    /\ fn = "ItemsFilter"
    /\ ui = [kind |-> "filter", search |-> "", page |-> 1, pageSize |-> 10]
    /\ pc = "rendered"
    /\ host = "UTC"
    /\ tsISO = NoISO
    /\ tz = ""
    /\ ruleSet = <<>>
    /\ meterId = ""
    /\ utility = ""
    /\ fromISO = NoISO
    /\ toISO = NoISO
    /\ local = NoLocal
    /\ result = Pending
    /\ req = NoReq
    /\ resp = NoResp

UIUnchanged == UNCHANGED <<host, fn, tsISO, tz, ruleSet, meterId, utility, fromISO, toISO, pc, local, result, req, resp>>

\* Input onChange
EditSearch ==
    /\ fn = "ItemsFilter"
    /\ \E value \in FilterTerms \ {ui.search} : ui' = [ui EXCEPT !.search = value, !.page = 1]
    /\ UIUnchanged

\* Select onValueChange
SelectPageSize ==
    /\ fn = "ItemsFilter"
    /\ \E value \in pageSizeOptions \ {ui.pageSize} : ui' = [ui EXCEPT !.pageSize = value]
    /\ UIUnchanged

\* PaginationPrevious onClick
ClickPrevious ==
    /\ fn = "ItemsFilter"
    /\ totalPagesProp(ui) > 1
    /\ currentPageOf(ui.page) # 1
    /\ ui' = [ui EXCEPT !.page = Max(1, currentPageOf(ui.page) - 1)]
    /\ UIUnchanged

\* PaginationLink onClick
ClickPage ==
    /\ fn = "ItemsFilter"
    /\ totalPagesProp(ui) > 1
    /\ \E i \in pageLinks(ui.page, totalPagesProp(ui)) : ui' = [ui EXCEPT !.page = i]
    /\ UIUnchanged

\* PaginationNext onClick
ClickNext ==
    /\ fn = "ItemsFilter"
    /\ totalPagesProp(ui) > 1
    /\ currentPageOf(ui.page) # totalPagesProp(ui)
    /\ currentPageOf(ui.page) < MaxPage
    /\ ui' = [ui EXCEPT !.page = currentPageOf(ui.page) + 1]
    /\ UIUnchanged

NextUI == EditSearch \/ SelectPageSize \/ ClickPrevious \/ ClickPage \/ ClickNext

SpecUI == InitUI /\ [][NextUI]_vars

(***************************************************************************)
(* Vocabulary of the properties.  These restate the specification's words  *)
(* over the arguments of the call and the values the matcher was given;    *)
(* they use none of the operators above that model the matching code.      *)
(***************************************************************************)
RateCall == fn \in {"unitRateFor", "carbonFor"}

\* the call has returned a number
Resolved == pc = "done" /\ RateCall /\ result.status = "returned"

WStart(i) == ruleSet[i].fromHHmm[1] * 60 + ruleSet[i].fromHHmm[2]

WEnd(i) == ruleSet[i].toHHmm[1] * 60 + ruleSet[i].toHHmm[2]

WValue(i) == IF fn = "unitRateFor" THEN ruleSet[i].unitRateGBPPerKWh ELSE ruleSet[i].gCO2PerKWh

DayPasses(i) ==
    \/ ruleSet[i].days \in {"undefined", "all"}
    \/ ruleSet[i].days = "weekends" /\ local.weekday \in {0, 6}
    \/ ruleSet[i].days = "weekdays" /\ local.weekday \in 1..5

HalfOpen(i) == WStart(i) <= local.minutes /\ local.minutes < WEnd(i)

Wrapped(i) == local.minutes >= WStart(i) \/ local.minutes < WEnd(i)

Contains(i) == IF WStart(i) <= WEnd(i) THEN HalfOpen(i) ELSE Wrapped(i)

Passes(i) == DayPasses(i) /\ Contains(i)

\* the loop tested window i: it returned from window i or from a later place
Tested(i) == result.index = 0 \/ i <= result.index

\* the loop took window i / tested it and went on
Taken(i) == result.index = i

Skipped(i) == result.index = 0 \/ i < result.index

Windows == 1..Len(ruleSet)

(***************************************************************************)
(* C1..C10                                                                 *)
(***************************************************************************)
\* C1: a window with start <= end whose day filter passes is taken by
\* unitRateFor/carbonFor only at a minute m with start <= m < end, and is never
\* passed over at such a minute: m = start and m = end-1 match, m = end does not.
C1_HalfOpenWindow ==
    Resolved => \A i \in Windows :
        (WStart(i) <= WEnd(i) /\ DayPasses(i)) => ((Taken(i) => HalfOpen(i)) /\ (Skipped(i) => ~HalfOpen(i)))

\* a non-wrapping window taken at its last minute, end-1
C1_Witness == Resolved /\ \E i \in Windows : WStart(i) < WEnd(i) /\ DayPasses(i) /\ local.minutes = WEnd(i) - 1 /\ Taken(i)

\* C2: a midnight-wrapping window (start > end) whose day filter passes is taken
\* only at a minute m with m >= start or m < end, and is never passed over at
\* such a minute (22:00-07:00: 1320 and 419 match, 420 and 700 do not).
C2_WrappingWindow ==
    Resolved => \A i \in Windows :
        (WStart(i) > WEnd(i) /\ DayPasses(i)) => ((Taken(i) => Wrapped(i)) /\ (Skipped(i) => ~Wrapped(i)))

\* the window 22:00-07:00 taken at 06:59
C2_Witness == Resolved /\ \E i \in Windows : WStart(i) = 1320 /\ WEnd(i) = 420 /\ DayPasses(i) /\ local.minutes = 419 /\ Taken(i)

\* C3: of the windows the loop tested and that contain the minute, a 'weekends'
\* window is taken iff the weekday is 0 or 6, a 'weekdays' window iff it is in
\* 1..5, and a window with filter 'all' or with no filter on every weekday.
C3_DayFilter == Resolved => \A i \in Windows : (Tested(i) /\ Contains(i)) => (Taken(i) <=> DayPasses(i))

\* a 'weekends' window that contains the minute, passed over on a weekday
C3_Witness == Resolved /\ \E i \in Windows : ruleSet[i].days = "weekends" /\ Contains(i) /\ local.weekday \in 1..5 /\ Skipped(i)

\* C4: when some window passes both tests, the value returned is that of the
\* passing window of smallest index, whatever later windows also pass.
C4_FirstMatchWins == Resolved => \A i \in Windows : (Passes(i) /\ \A j \in 1..(i - 1) : ~Passes(j)) => (result.value = WValue(i) /\ Taken(i))

\* two windows pass and the first one's value is returned
C4_Witness == Resolved /\ Len(ruleSet) >= 2 /\ Passes(1) /\ Passes(2) /\ WValue(1) # WValue(2) /\ result.value = WValue(1)

\* C5: with a non-empty list of which no window passes both tests, the value
\* returned is that of the last window.
C5_FallbackToLast == (pc = "done" /\ RateCall /\ tz \in KnownZones /\ Len(ruleSet) > 0 /\ \A i \in Windows : ~Passes(i)) => (result.status = "returned" /\ result.value = WValue(Len(ruleSet)) /\ result.index = 0)

\* two windows, neither passes, the second one's value is returned
C5_Witness == Resolved /\ Len(ruleSet) = 2 /\ ~Passes(1) /\ ~Passes(2) /\ WValue(1) # WValue(2) /\ result.value = WValue(2)

\* C6: for every rule set, a list with no windows included, and every instant,
\* unitRateFor and carbonFor complete without raising and return a number.
C6_NeverThrows == (pc = "done" /\ RateCall /\ tz \in KnownZones) => result.status = "returned"

\* what tou_elec_v1 charges at local minute m of weekday w, in pence per kWh
TouRate(m, w) == IF m >= 1320 \/ m < 420 THEN 18 ELSE IF m >= 1140 THEN 24 ELSE IF w \in 1..5 THEN 28 ELSE 22

\* C7: under tou_elec_v1 the rate at local (m, w) is 0.28 on weekdays and 0.22
\* on weekends in 07:00-19:00, 0.24 in 19:00-22:00, 0.18 in 22:00-07:00; the
\* instant of Scenario A resolves to 0.28, that of Scenario B to 0.18.
C7_TouElecRates ==
    (Resolved /\ fn = "unitRateFor" /\ ruleSet = tou_elec_v1) =>
        /\ result.value = TouRate(local.minutes, local.weekday)
        /\ (tsISO = ScenarioA /\ tz = "Europe/London") => (local.minutes = 13 * 60 /\ local.weekday = 2 /\ result.value = 28)
        /\ (tsISO = ScenarioB /\ tz = "Europe/London") => (local.minutes = 30 /\ local.weekday = 0 /\ result.value = 18)

\* Scenario A: 2025-09-16T12:00Z in Europe/London is 13:00 on a Tuesday, 0.28
C7_Witness == Resolved /\ fn = "unitRateFor" /\ ruleSet = tou_elec_v1 /\ tsISO = ScenarioA /\ tz = "Europe/London" /\ result.value = 28

\* UTC minute of day and weekday of the timestamp, and the offset of its zone
UtcMinute == FloorMod(DateParse(tsISO), MinutesPerDay)

UtcWeekday == FloorMod(FloorDiv(DateParse(tsISO), MinutesPerDay) + 4, 7)

ZoneOffset == OffsetAt(tz, DateParse(tsISO))

\* C8: the matcher is given minute (u + k) mod 1440 and the weekday of the
\* local date: the UTC weekday d, plus one when u + k >= 1440, minus one when
\* u + k < 0 (mod 7).
C8_LocalWeekdayAndMinute ==
    (pc = "done" /\ RateCall /\ tz \in KnownZones) =>
        /\ local.minutes = FloorMod(UtcMinute + ZoneOffset, MinutesPerDay)
        /\ local.weekday = FloorMod(UtcWeekday + (IF UtcMinute + ZoneOffset >= MinutesPerDay THEN 1 ELSE IF UtcMinute + ZoneOffset < 0 THEN -1 ELSE 0), 7)

\* the range asked of generateReadings and the step the specification gives it
ReadingsCall == pc = "done" /\ fn = "generateReadings"

From == DateParse(fromISO)

To == DateParse(toISO)

Step == IF utility = "electricity" THEN 30 ELSE 1440

ReadingAt(t) == \E k \in 1..Len(result.readings) : DateParse(result.readings[k].ts) = t

\* C9: for from <= to the readings are, in order, those at from + k*step for
\* k = 0, 1, ... while from + k*step <= to, floor((to - from)/step) + 1 of them,
\* each with the given meter id (electricity over 60 minutes: 3 readings).
C9_OneReadingPerStep ==
    (ReadingsCall /\ From <= To) =>
        /\ Len(result.readings) = ((To - From) \div Step) + 1
        /\ \A k \in 1..Len(result.readings) : DateParse(result.readings[k].ts) = From + (k - 1) * Step /\ result.readings[k].meterId = meterId
        /\ (utility = "electricity" /\ To - From = 60) => Len(result.readings) = 3

\* Scenario D: electricity from 2025-01-01T00:00Z to 01:00Z
C9_Witness == ReadingsCall /\ utility = "electricity" /\ fromISO = ISO(20089, 0, 0) /\ toISO = ISO(20089, 1, 0) /\ Len(result.readings) = 3 /\ result.readings[3].ts = toISO

\* C10 as stated: for every from <= to the readings hold one at fromInstant and
\* one at toInstant.
C10_BothEndpoints == (ReadingsCall /\ From <= To) => (ReadingAt(From) /\ ReadingAt(To))

\* C10 amended: for every from <= to the readings hold one at fromInstant, and
\* hold one at toInstant exactly when to - from is a whole number of steps.
C10_EndpointOnStep == (ReadingsCall /\ From <= To) => (ReadingAt(From) /\ (ReadingAt(To) <=> (To - From) % Step = 0))

\* a range that ends between two steps: the last reading is before toInstant
C10_Witness == ReadingsCall /\ From <= To /\ (To - From) % Step # 0 /\ Len(result.readings) >= 2 /\ ReadingAt(From) /\ ~ReadingAt(To)

(***************************************************************************)
(* C11..C19                                                                *)
(***************************************************************************)
\* C11: when toInstant < fromInstant, generateReadings fails with InvalidRange
\* and produces no reading sequence.
C11_InvalidRangeFails == (ReadingsCall /\ To < From) => (result.status = "threw" /\ result.error = "InvalidRange")

\* the request of a finished GET, as the specification reads it
ApiDone == pc = "done" /\ fn = "GET"

\* the page and the page size asked for (absent or empty parameters: the defaults)
AskedPage == IF req.page.kind \in {"absent", "empty"} THEN 1 ELSE req.page.n

AskedPageSize == IF req.pageSize.kind \in {"absent", "empty"} THEN 10000 ELSE req.pageSize.n

NumericParams == req.page.kind # "letters" /\ req.pageSize.kind # "letters"

SearchActive == req.search # Null /\ req.search.text # <<>>

\* the ordered list that is paginated: every enriched reading, or with a search
\* term those whose site name holds it
Enriched == [k \in 1..Len(req.starterReadings) |-> enrich(req.starterReadings[k], req.starterMeters, req.starterSites)]

NameHolds(e) == e.site # Null /\ includes(toLowerCase(e.site.name), toLowerCase(req.search.text))

Filtered == IF SearchActive THEN SelectSeq(Enriched, NameHolds) ELSE Enriched

\* items of list l with 0-based index in [(p-1)*size, p*size)
PageOf(l, p, size) ==
    LET first == (p - 1) * size
        last == IF p * size < Len(l) THEN p * size ELSE Len(l)
    IN  IF last > first THEN [j \in 1..(last - first) |-> l[first + j]] ELSE <<>>

CeilOf(n, size) == IF n % size = 0 THEN n \div size ELSE (n \div size) + 1

\* the data of pages 1..n of the same request, one after the other
RECURSIVE PagesUpTo(_)
PagesUpTo(n) == IF n = 0 THEN <<>> ELSE PagesUpTo(n - 1) \o GET([req EXCEPT !.page = Digits(n)]).data

\* C12: for page >= 1 and pageSize >= 1 the data is exactly the items of the
\* filtered list with 0-based index in [(page-1)*pageSize, page*pageSize), in
\* order; totalPages is ceil(totalItems/pageSize); pages 1..totalPages taken
\* one after the other give every item exactly once.
C12_PaginationSlice ==
    (ApiDone /\ NumericParams /\ AskedPage >= 1 /\ AskedPageSize >= 1) =>
        /\ resp.success
        /\ resp.data = PageOf(Filtered, AskedPage, AskedPageSize)
        /\ resp.pagination.totalItems = Num(Len(Filtered))
        /\ resp.pagination.totalPages = Num(CeilOf(Len(Filtered), AskedPageSize))
        /\ PagesUpTo(CeilOf(Len(Filtered), AskedPageSize)) = Filtered

\* page 2 of three items at two per page: the third item alone
C12_Witness == ApiDone /\ ~SearchActive /\ Len(req.starterReadings) = 3 /\ req.page = Digits(2) /\ req.pageSize = Digits(2) /\ resp.success /\ Len(resp.data) = 1 /\ resp.data[1].ts = 3 /\ resp.pagination.totalPages = Num(2)

\* C13: a request with page < 1 or pageSize < 1 fails with InvalidPagination and
\* yields no data items; it never returns a successful page of readings.
C13_InvalidPaginationFails ==
    (ApiDone /\ NumericParams /\ (AskedPage < 1 \/ AskedPageSize < 1)) => (~resp.success /\ resp.data = <<>> /\ resp.error = "InvalidPagination")

\* readings whose meter, or whose meter's site, is not in the catalog
Unresolved == {k \in 1..Len(Enriched) : Enriched[k].meter = Null \/ Enriched[k].site = Null}

\* an unresolved reading does not fail the request, and is left out of the
\* site-filtered output, which holds every resolvable reading whose site matches
UnresolvedNonFatal == resp.success /\ (SearchActive => (\A k \in 1..Len(resp.data) : resp.data[k].site # Null)) /\ resp.data = Filtered

\* C14: a reading whose meter or site is not in the catalog never fails the
\* request; it is excluded from site-filtered output, the number of excluded
\* readings is reported, and every resolvable reading is still processed.
C14_UnresolvedJoinReported ==
    (ApiDone /\ req.page = Absent /\ req.pageSize = Absent) =>
        /\ UnresolvedNonFatal
        /\ "excluded" \in DOMAIN resp /\ resp.excluded = Cardinality(Unresolved)

AggDone == pc = "done" /\ fn = "aggregate"

RECURSIVE SumOf(_)
SumOf(s) == IF s = <<>> THEN 0 ELSE Head(s) + SumOf(Tail(s))

ValuesOf(s) == {s[i] : i \in 1..Len(s)}

Smallest(s) == IF s = <<>> THEN NoValue ELSE CHOOSE v \in ValuesOf(s) : \A w \in ValuesOf(s) : v <= w

Largest(s) == IF s = <<>> THEN NoValue ELSE CHOOSE v \in ValuesOf(s) : \A w \in ValuesOf(s) : v >= w

\* C15: merging the (count, sum, min, max) accumulators of the two partitions
\* of a group's records gives the count, sum, min and max of the whole set,
\* equal to the accumulator of a single pass over the whole set, and the avg
\* taken from the merged (sum, count) pair is the whole-set average:
\* avg * count = sum, and the bucket's sampleCount is the number of records.
C15_MergeAssociative ==
    AggDone =>
        /\ result.acc = resp.acc
        /\ result.acc.count = Len(req.records)
        /\ result.acc.sum = SumOf(req.records)
        /\ result.acc.min = Smallest(req.records)
        /\ result.acc.max = Largest(req.records)
        /\ result.bucket.sampleCount = Len(req.records)
        /\ (req.aggregateFn = "avg" /\ req.records # <<>>) =>
               result.bucket.aggregate.num * Len(req.records) = SumOf(req.records) * result.bucket.aggregate.den

\* values 1, 2, 3 of one bucket, split as {2} and {1, 3}: avg 2, sampleCount 3
C15_Witness ==
    /\ AggDone
    /\ req.records = <<1, 2, 3>>
    /\ req.left = {2}
    /\ req.aggregateFn = "avg"
    /\ result.bucket = [aggregate |-> [num |-> 2, den |-> 1], sampleCount |-> 3]
    /\ local.right.min = 1
    /\ local.right.max = 3

PairDone == pc = "done" /\ fn = "pair"

\* the rule-set entries have the same from/to/days, entry by entry
SameWindows ==
    /\ Len(req.profile) = Len(ruleSet)
    /\ \A i \in 1..Len(ruleSet) :
         /\ req.profile[i].fromHHmm = ruleSet[i].fromHHmm
         /\ req.profile[i].toHHmm = ruleSet[i].toHHmm
         /\ req.profile[i].days = ruleSet[i].days

\* the position of the entry a resolver returned: the last one on fallback
SelectedBy(r) == IF r.index = 0 THEN Len(ruleSet) ELSE r.index

\* C16: for a tariff and a carbon profile with identical from/to/days
\* entries, carbonFor ends as unitRateFor does (both throw or both return),
\* takes the same loop exit (same window, or both the fallback), and returns
\* the intensity of the entry whose rate unitRateFor returned.
C16_SameResolver ==
    (PairDone /\ SameWindows) =>
        /\ resp.status = result.status
        /\ resp.error = result.error
        /\ result.status = "returned" =>
              /\ resp.index = result.index
              /\ result.value = ruleSet[SelectedBy(result)].unitRateGBPPerKWh
              /\ resp.value = req.profile[SelectedBy(result)].gCO2PerKWh

\* second of two windows taken by both resolvers, and a fallback by both
C16_Witness ==
    /\ PairDone
    /\ SameWindows
    /\ Len(ruleSet) = 2
    /\ result.status = "returned"
    /\ result.index = 2
    /\ resp.index = 2
    /\ resp.value = req.profile[2].gCO2PerKWh

C16_WitnessFallback ==
    /\ PairDone
    /\ SameWindows
    /\ Len(ruleSet) = 2
    /\ result.status = "returned"
    /\ result.index = 0
    /\ resp.value = req.profile[2].gCO2PerKWh

FixtureCall == RateCall /\ req.kind = "fixture"

\* window i of the fixture, in the order of the source, passes the day filter
\* and contains the local minute
FixturePasses(i) ==
    LET w == req.windows[i]
        s == w.fromHHmm[1] * 60 + w.fromHHmm[2]
        e == w.toHHmm[1] * 60 + w.toHHmm[2]
    IN  /\ \/ w.days \in {"undefined", "all"}
           \/ w.days = "weekends" /\ local.weekday \in {0, 6}
           \/ w.days = "weekdays" /\ local.weekday \in 1..5
        /\ IF s <= e THEN s <= local.minutes /\ local.minutes < e
           ELSE local.minutes >= s \/ local.minutes < e

FixtureValue(i) == IF fn = "unitRateFor" THEN req.windows[i].unitRateGBPPerKWh ELSE req.windows[i].gCO2PerKWh

\* C17: at every local minute of every weekday exactly one window of a
\* fixture rule set passes the day filter and containment; the call returns
\* from inside the loop (never from the fallback), and it returns that one
\* window's value whether the list is in source order or reversed.
C17_FixturesPartitionWeek ==
    (pc = "done" /\ FixtureCall) =>
        /\ Cardinality({i \in 1..Len(req.windows) : FixturePasses(i)}) = 1
        /\ result.status = "returned"
        /\ result.index # 0
        /\ \A i \in 1..Len(req.windows) : FixturePasses(i) => result.value = FixtureValue(i)

\* Saturday 06:00 with the carbon profile reversed: the weekend day rule,
\* second in the reversed list, sixth in the source
C17_Witness ==
    /\ pc = "done"
    /\ FixtureCall
    /\ fn = "carbonFor"
    /\ ruleSet = Reverse(uk_grid_profile_v1)
    /\ local.weekday = 6
    /\ local.minutes = 360
    /\ result.index = 2
    /\ result.value = 220
    /\ FixturePasses(6)

\* C18: while the component is mounted the current page is one of the pages
\* that exist: 1 <= page <= totalPages.
C18_PageWithinTotalPages ==
    fn = "ItemsFilter" => (1 <= ui.page /\ ui.page <= totalPagesProp(ui))

Degenerate(i) == WStart(i) = WEnd(i)

\* C19: a window whose start equals its end is never the window a call
\* returns from, at any local minute and weekday; a call on a non-empty rule
\* set made only of such windows returns through the statement after the
\* loop, with the last window's value.
C19_DegenerateWindowEmpty ==
    Resolved =>
        /\ \A i \in Windows : Degenerate(i) => ~Taken(i)
        /\ (\A i \in Windows : Degenerate(i)) => (result.index = 0 /\ result.value = WValue(Len(ruleSet)))

\* 07:00 local, two windows 07:00-07:00 whose day filter passes: the start
\* minute itself is not contained, the second window's value comes back
C19_Witness ==
    /\ Resolved
    /\ Len(ruleSet) = 2
    /\ \A i \in Windows : Degenerate(i) /\ DayPasses(i)
    /\ local.minutes = WStart(1)
    /\ result.index = 0
    /\ result.value = 20

====
